---- MODULE Spec2Model ----
(***************************************************************************)
(* Model of the content-item `move` command handler (forward move path and *)
(* revert path) of dc-cli.  The handler is an async function: every await  *)
(* is a suspension point, so every action below is the code from one await *)
(* to the next.  The remote API client, the copy collaborator, the         *)
(* import-revert collaborator and FileLog are collaborators whose code is  *)
(* outside the modelled sources; they are modelled at their interface.     *)
(***************************************************************************)
EXTENDS Integers, Sequences, FiniteSets, TLC

\* ---------------------------------------------------------------- bounds
NumIds == 2
MaxRuns == 2
MaxBatch == 2
MaxEditions == 2

Ids == 1..NumIds
Paths == {"log1"}

Null == "null"
NoFile == <<[kind |-> "NOFILE", text |-> "", id |-> 0]>>

ACTIVE == "ACTIVE"
ARCHIVED == "ARCHIVED"
Statuses == {ACTIVE, ARCHIVED}

\* source-side credentials (argv.hubId, argv.clientId, argv.clientSecret)
hubId == "srcHub"
clientId == "srcClient"
clientSecret == "srcSecret"

\* values the optional argv.dstHubId / dstClientId / dstSecret can take:
\* absent or given
DstHubArgs == {Null, "dstHub"}
DstClientArgs == {Null, "dstClient"}
DstSecretArgs == {Null, "dstSecret"}

VARIABLES
  srcStatus,    \* status of every content item at the source hub
  dst,          \* ids that have a copy at the destination
  disk,         \* log files on disk: path -> entries, or NoFile
  runs,         \* number of handler invocations started so far
  pc,           \* position of the running handler
  argv,         \* argv.revertLog and argv.logFile of the running invocation
  exportedIds,  \* argv.exportedIds
  copySuccess,  \* result of copy.handler
  log,          \* entries of the FileLog of the running invocation
  closeCount,   \* number of log.close() calls of the running invocation
  toUnarchive,  \* log.getData('MOVED') on the revert path
  i,            \* loop index (1-based)
  item,         \* the fetched ContentItem
  console,      \* console.log output of the running invocation
  calls,        \* collaborator calls made by the running invocation
  lastRun,      \* summary of the previous invocation
  client        \* credentials of the API client the handler created

\* state of the event export command
VARIABLES
  xpc,          \* position of the export handler
  xid,          \* argv.id
  index,        \* previouslyExportedEvents: the files of the output directory
  batch,        \* the events being exported
  evIdx,        \* index of the event being enriched (1-based)
  editionsLeft, \* editions of that event whose slots are still to be listed
  records,      \* allExports
  dirExists,    \* whether the output directory exists
  ensured,      \* number of ensureDirectoryExists calls
  written,      \* writeJsonToFile calls: filename and content
  rows,         \* rows of the summary table
  xlog,         \* lines of the export log
  xclosed,      \* number of log.close() calls
  fetches,      \* kinds of API requests issued so far
  prompts,      \* number of overwrite confirmations requested
  tiers,        \* per event enriched so far: how its child fetches ended
  notice        \* message of nothingExportedExit, if it was called

\* a call of filterEvents on its own
VARIABLES
  filterCall    \* its arguments, and its result once it has returned

mvars == <<srcStatus, dst, disk, runs, pc, argv, exportedIds, copySuccess, log,
           closeCount, toUnarchive, i, item, console, calls, lastRun, client>>

xvars == <<xpc, xid, index, batch, evIdx, editionsLeft, records, dirExists,
           ensured, written, rows, xlog, xclosed, fetches, prompts, tiers,
           notice>>

vars == <<mvars, xvars, filterCall>>

\* ------------------------------------------------------------- helpers
Range(s) == {s[k] : k \in 1..Len(s)}

\* sequences over Ids without repetition
IdSeqs == {s \in UNION {[1..n -> Ids] : n \in 0..NumIds} :
             \A j, k \in 1..Len(s) : j # k => s[j] # s[k]}

NoItem == [id |-> 0, status |-> Null]

NoArgs == [hubId |-> Null, clientId |-> Null, clientSecret |-> Null,
           revertLog |-> Null]

\* a recorded collaborator call: an operation on an item id, or one with
\* an argument record; its result is pending until the awaited promise
\* settles
Call(op, id) == [op |-> op, id |-> id, args |-> NoArgs, result |-> "pending"]
CallWith(op, args) == [op |-> op, id |-> 0, args |-> args, result |-> "pending"]

\* the outstanding call (the last one made) settles with result r
Settle(c, r) == [c EXCEPT ![Len(c)].result = r]

\* a || b of JavaScript on optional strings: absent and "" are falsy
OrElse(a, b) == IF a = Null \/ a = "" THEN b ELSE a

\* --------------------------------------------------------------- FileLog
Action(kind, id) == [kind |-> kind, text |-> "", id |-> id]
Comment(text, id) == [kind |-> "COMMENT", text |-> text, id |-> id]

addAction(l, kind, id) == Append(l, Action(kind, id))
addComment(l, text, id) == Append(l, Comment(text, id))

\* FileLog.loadFromFile: the entries of the file, when there is one
canLoad(d, path) == d[path] # NoFile
loadFromFile(d, path) == d[path]

\* FileLog.close: the entries are written to the file of the log
close(d, path, l) == [d EXCEPT ![path] = l]

\* ContentItem.related.archive / unarchive, when they succeed
archive(s, id) == [s EXCEPT ![id] = ARCHIVED]
unarchive(s, id) == [s EXCEPT ![id] = ACTIVE]

RECURSIVE getData(_, _)
getData(l, kind) ==
  IF l = <<>> THEN <<>>
  ELSE IF Head(l).kind = kind
       THEN <<Head(l).id>> \o getData(Tail(l), kind)
       ELSE getData(Tail(l), kind)

\* what a log path can hold before the first invocation: nothing, or the
\* log an earlier move closed (MOVED entries, with the comments of a failed
\* archive left out)
RECURSIVE MovedLog(_)
MovedLog(ids) ==
  IF ids = <<>> THEN <<>>
  ELSE <<Action("MOVED", Head(ids))>> \o MovedLog(Tail(ids))

InitialFiles == {NoFile} \cup {MovedLog(ids) : ids \in IdSeqs}

NoArgv == [revertLog |-> Null, logFile |-> Null,
           dstHubId |-> Null, dstClientId |-> Null, dstSecret |-> Null]

\* console messages of the revert path
CouldNotOpen == [text |-> "Could not open the import log! Aborting.", id |-> 0]
CouldNotFind(id) == [text |-> "Could not find item, skipping.", id |-> id]
CouldNotUnarchive(id) == [text |-> "Could not unarchive item, skipping.", id |-> id]
AlreadyUnarchived(id) == [text |-> "Item is already unarchived, skipping.", id |-> id]

\* positions of the recorded calls of operation op that settled with r
CallsOf(op, r) ==
  {n \in 1..Len(calls) : calls[n].op = op /\ calls[n].result = r}
CallsTo(op) == {n \in 1..Len(calls) : calls[n].op = op}

\* the ids of the recorded calls of operation op that succeeded, in order
RECURSIVE OkIdsOf(_, _)
OkIdsOf(c, op) ==
  IF c = <<>> THEN <<>>
  ELSE IF Head(c).op = op /\ Head(c).result = "ok"
       THEN <<Head(c).id>> \o OkIdsOf(Tail(c), op)
       ELSE OkIdsOf(Tail(c), op)

\* summary of the invocation that just ended: the log it reverted, whether
\* every call it made succeeded, how many items it unarchived, the log it
\* closed and, when it closed one, the ids whose archive() succeeded, in call
\* order
RunSummary ==
  [revertLog |-> argv.revertLog,
   clean |-> pc = "done" /\ \A n \in 1..Len(calls) : calls[n].result = "ok",
   unarchived |-> Cardinality(CallsOf("unarchive", "ok")),
   closedLog |-> IF pc = "done" /\ closeCount = 1 THEN argv.logFile ELSE Null,
   archived |-> IF pc = "done" /\ closeCount = 1
                THEN OkIdsOf(calls, "archive") ELSE <<>>]

\* lines 142-147, 209-214: the client is created with the source credentials
NoClient == [hubId |-> Null, clientId |-> Null, clientSecret |-> Null]
SourceClient ==
  [hubId |-> hubId, clientId |-> clientId, clientSecret |-> clientSecret]

\* ------------------------------------------------------------------ Init
MoveInit ==
  /\ srcStatus \in [Ids -> Statuses]
  /\ dst = {}
  /\ disk \in [Paths -> InitialFiles]
  /\ runs = 0
  /\ pc = "idle"
  /\ argv = NoArgv
  /\ exportedIds = <<>>
  /\ copySuccess = FALSE
  /\ log = <<>>
  /\ closeCount = 0
  /\ toUnarchive = <<>>
  /\ i = 1
  /\ item = NoItem
  /\ console = <<>>
  /\ calls = <<>>
  /\ lastRun = [revertLog |-> Null, clean |-> FALSE, unarchived |-> 0,
                closedLog |-> Null, archived |-> <<>>]
  /\ client = NoClient

\* ---------------------------------------------- event export: the data
\* an absent Date (from / to undefined) and the dates events start and end at
NoDate == 0
Dates == {1, 2}

\* event.id of the fetched events and of the files of the output directory
\* (Null: no id), and event.name
BatchIds == {"A", "C", Null}
LocalIds == {"A", "B", Null}
Names == {"x", "y"}

Undefined == "undefined"
Fetched == "fetched"

\* an event as the API returns it, and the same event down the export
\* (start and end are read by filterEvents only)
StoredEvents ==
  {e \in [id : BatchIds, name : Names, start : Dates, end : Dates] :
     e.start <= e.end}
Event(id, name) == [id |-> id, name |-> name, editions |-> Undefined]
Events == {Event(id, name) : id \in BatchIds, name \in Names}
AsEvent(e) == Event(e.id, e.name)

\* a file of the output directory: <dir>/<name>.json, <dir>/<name>-<n>.json
Filename(name, n) == [name |-> name, suffix |-> n]

\* loadJsonFromDirectory: the files found in the output directory, as
\* filename and event, in key order (the order of the directory listing, by
\* name)
LocalFiles ==
  {[filename |-> Filename(name, 0),
    event |-> [id |-> id, name |-> name, editions |-> Fetched]] :
     name \in Names, id \in LocalIds}

IndexSeqs ==
  {s \in UNION {[1..n -> LocalFiles] : n \in 0..Cardinality(Names)} :
     \A a, b \in 1..Len(s) :
        a < b => (s[a].filename.name = "x" /\ s[b].filename.name = "y")}

\* Object.keys and Object.values of the index
Keys(idx) == {idx[n].filename : n \in 1..Len(idx)}

\* uniqueFilenamePath: <name>.json, or the first <name>-<n>.json, n = 1, 2,
\* ..., that is not among the used filenames
RECURSIVE uniqueFrom(_, _, _)
uniqueFrom(name, n, used) ==
  IF Filename(name, n) \notin used THEN Filename(name, n)
  ELSE uniqueFrom(name, n + 1, used)

uniqueFilenamePath(name, used) == uniqueFrom(name, 0, used)

\* Array.prototype.findIndex over Object.values of the index: the first
\* position whose event has the id, 0 when there is none
findIndex(idx, id) ==
  IF \E n \in 1..Len(idx) : idx[n].event.id = id
  THEN CHOOSE n \in 1..Len(idx) :
         /\ idx[n].event.id = id
         /\ \A m \in 1..(n - 1) : idx[m].event.id # id
  ELSE 0

\* lines 103-134: the export record of one event, and the index with the
\* filename reserved when the event matched no indexed file
getExportRecordForEvent(event, idx) ==
  LET indexOfExportedContentType == findIndex(idx, event.id) IN
  IF indexOfExportedContentType = 0
  THEN LET filename == uniqueFilenamePath(event.name, Keys(idx)) IN
       [record |-> [filename |-> filename, status |-> "CREATED",
                    event |-> event],
        index |-> Append(idx, [filename |-> filename, event |-> event])]
  ELSE [record |-> [filename |-> idx[indexOfExportedContentType].filename,
                    status |-> "UPDATED", event |-> event],
        index |-> idx]

\* lines 141-160: the loop of getEventExports from the remaining events evs,
\* with the records and the updated map collected so far
RECURSIVE getEventExportsFrom(_, _, _, _)
getEventExportsFrom(idx, evs, allExports, updatedExportsMap) ==
  IF evs = <<>>
  THEN [allExports |-> allExports, updatedExportsMap |-> updatedExportsMap,
        index |-> idx]
  ELSE LET event == Head(evs) IN
       IF event.id = Null
       THEN getEventExportsFrom(idx, Tail(evs), allExports, updatedExportsMap)
       ELSE LET r == getExportRecordForEvent(event, idx) IN
            getEventExportsFrom(
              r.index, Tail(evs), Append(allExports, r.record),
              IF r.record.status = "UPDATED"
              THEN Append(updatedExportsMap,
                          [uri |-> event.id, filename |-> r.record.filename])
              ELSE updatedExportsMap)

getEventExports(idx, eventsBeingExported) ==
  getEventExportsFrom(idx, eventsBeingExported, <<>>, <<>>)

\* filterEvents that compares the start with from and the end with to
filterEventsSwapped(events, from, to) ==
  SelectSeq(events, LAMBDA event :
    /\ ~(from # NoDate /\ event.start < from)
    /\ ~(to # NoDate /\ event.end > to))

\* lines 198-213: the events that end no earlier than from and start no
\* later than to (NoDate: the bound is undefined)
filterEvents(events, from, to) ==
  SelectSeq(events, LAMBDA event :
    /\ ~(from # NoDate /\ event.end < from)
    /\ ~(to # NoDate /\ event.start > to))

\* line 100: result.filter(event => event.editions != undefined)
WithEditions(events) ==
  SelectSeq(events, LAMBDA event : event.editions # Undefined)

\* lines 190-191: the content written for an event, its id deleted
WithoutId(event) == [name |-> event.name, editions |-> event.editions]

\* the export does nothing: the state of its variables while the move
\* command is modelled
ExportIdle ==
  /\ xpc = "idle"
  /\ xid = Null
  /\ index = <<>>
  /\ batch = <<>>
  /\ evIdx = 1
  /\ editionsLeft = 0
  /\ records = <<>>
  /\ dirExists = FALSE
  /\ ensured = 0
  /\ written = <<>>
  /\ rows = <<>>
  /\ xlog = <<>>
  /\ xclosed = 0
  /\ fetches = {}
  /\ prompts = 0
  /\ tiers = <<>>
  /\ notice = Null

\* no call of filterEvents on its own is modelled
NoFilterCall ==
  [events |-> <<>>, from |-> NoDate, to |-> NoDate, result |-> <<>>,
   returned |-> FALSE]

Init == MoveInit /\ ExportIdle /\ filterCall = NoFilterCall

\* ------------------------------------------------------- handler entry
CanStart == pc \in {"idle", "done", "threw"} /\ runs < MaxRuns

\* lines 132-141 (else branch), 200-203: no revertLog; the log is created and
\* copy.handler is invoked
StartMove(logFile) ==
  /\ CanStart
  /\ runs' = runs + 1
  /\ lastRun' = RunSummary
  /\ argv' = [NoArgv EXCEPT !.logFile = logFile]
  /\ exportedIds' = <<>>
  /\ log' = <<>>
  /\ closeCount' = 0
  /\ copySuccess' = FALSE
  /\ toUnarchive' = <<>>
  /\ i' = 1
  /\ item' = NoItem
  /\ console' = <<>>
  /\ calls' = <<Call("copy", 0)>>
  /\ pc' = "copy"
  /\ client' = NoClient
  /\ UNCHANGED <<xvars, filterCall, srcStatus, dst, disk>>

\* lines 132-151: revertLog given; the client and an empty FileLog are
\* created and log.loadFromFile is invoked
StartRevert(revertLog, dHub, dClient, dSecret) ==
  /\ CanStart
  /\ runs' = runs + 1
  /\ lastRun' = RunSummary
  /\ argv' = [revertLog |-> revertLog, logFile |-> Null,
              dstHubId |-> dHub, dstClientId |-> dClient, dstSecret |-> dSecret]
  /\ exportedIds' = <<>>
  /\ log' = <<>>
  /\ closeCount' = 0
  /\ copySuccess' = FALSE
  /\ toUnarchive' = <<>>
  /\ i' = 1
  /\ item' = NoItem
  /\ console' = <<>>
  /\ calls' = <<CallWith("loadFromFile", [NoArgs EXCEPT !.revertLog = revertLog])>>
  /\ pc' = "load"
  /\ client' = SourceClient
  /\ UNCHANGED <<xvars, filterCall, srcStatus, dst, disk>>

\* ---------------------------------------------------- forward move path
\* what the copy collaborator can do: the ids it exported, the ids it
\* created at the destination and its result; success means every exported
\* id was created
CopyOutcomes ==
  {o \in [ids : IdSeqs, created : SUBSET Ids, success : BOOLEAN] :
     /\ o.created \subseteq Range(o.ids)
     /\ o.success => o.created = Range(o.ids)}

\* lines 221-233: the head of the archive loop at index n: either the next
\* source item is requested, or the loop is over and the log is closed
ArchiveLoop(n, exported, newLog, newCalls) ==
  /\ i' = n
  /\ log' = newLog
  /\ IF n <= Len(exported)
     THEN /\ calls' = Append(newCalls, Call("get", exported[n]))
          /\ pc' = "get"
          /\ UNCHANGED <<disk, closeCount>>
     ELSE /\ calls' = newCalls
          /\ disk' = close(disk, argv.logFile, newLog)
          /\ closeCount' = closeCount + 1
          /\ pc' = "done"

\* CopyFailed without the early return of lines 205-207
CopyFailedNoReturn ==
  /\ pc = "copy"
  /\ \E o \in CopyOutcomes :
       /\ ~o.success
       /\ exportedIds' = o.ids
       /\ dst' = dst \cup o.created
       /\ ArchiveLoop(1, o.ids, log, Settle(calls, "ok"))
  /\ copySuccess' = FALSE
  /\ client' = SourceClient
  /\ UNCHANGED <<xvars, filterCall, srcStatus, runs, argv, toUnarchive, item, console, lastRun>>

\* lines 203-207: copy.handler resolved false; the handler returns
CopyFailed ==
  /\ pc = "copy"
  /\ \E o \in CopyOutcomes :
       /\ ~o.success
       /\ exportedIds' = o.ids
       /\ dst' = dst \cup o.created
  /\ copySuccess' = FALSE
  /\ calls' = Settle(calls, "ok")
  /\ pc' = "done"
  /\ UNCHANGED <<xvars, filterCall, client,
                 srcStatus, disk, runs, argv, log, closeCount, toUnarchive,
                 i, item, console, lastRun>>

\* lines 203-222: copy.handler resolved true; the client is created and the
\* archive loop is entered
CopySucceeded ==
  /\ pc = "copy"
  /\ \E o \in CopyOutcomes :
       /\ o.success
       /\ exportedIds' = o.ids
       /\ dst' = dst \cup o.created
       /\ ArchiveLoop(1, o.ids, log, Settle(calls, "ok"))
  /\ copySuccess' = TRUE
  /\ client' = SourceClient
  /\ UNCHANGED <<xvars, filterCall, srcStatus, runs, argv, toUnarchive, item, console, lastRun>>

\* lines 222-225: contentItems.get resolved; item.related.archive is invoked
GetOk ==
  /\ pc = "get"
  /\ item' = [id |-> exportedIds[i], status |-> srcStatus[exportedIds[i]]]
  /\ calls' = Append(Settle(calls, "ok"), Call("archive", exportedIds[i]))
  /\ pc' = "archive"
  /\ UNCHANGED <<xvars, filterCall, client,
                 srcStatus, dst, disk, runs, argv, exportedIds, copySuccess,
                 log, closeCount, toUnarchive, i, console, lastRun>>

\* line 222: contentItems.get rejected outside any try; the handler rejects
GetFail ==
  /\ pc = "get"
  /\ calls' = Settle(calls, "error")
  /\ pc' = "threw"
  /\ UNCHANGED <<xvars, filterCall, client,
                 srcStatus, dst, disk, runs, argv, exportedIds, copySuccess,
                 log, closeCount, toUnarchive, i, item, console, lastRun>>

\* ArchiveOk without the addAction of line 226
ArchiveOkNoLog ==
  /\ pc = "archive"
  /\ srcStatus' = archive(srcStatus, item.id)
  /\ ArchiveLoop(i + 1, exportedIds, log,
                 Settle(calls, "ok"))
  /\ UNCHANGED <<xvars, filterCall, client,
                 dst, runs, argv, exportedIds, copySuccess, toUnarchive, item,
                 console, lastRun>>

\* lines 225-226, 221-233: archive resolved; MOVED is logged, next iteration
ArchiveOk ==
  /\ pc = "archive"
  /\ srcStatus' = archive(srcStatus, item.id)
  /\ ArchiveLoop(i + 1, exportedIds, addAction(log, "MOVED", item.id),
                 Settle(calls, "ok"))
  /\ UNCHANGED <<xvars, filterCall, client,
                 dst, runs, argv, exportedIds, copySuccess, toUnarchive, item,
                 console, lastRun>>

\* ArchiveFail without the catch of lines 227-230: the rejection escapes
ArchiveFailRethrows ==
  /\ pc = "archive"
  /\ calls' = Settle(calls, "error")
  /\ pc' = "threw"
  /\ UNCHANGED <<xvars, filterCall, client,
                 srcStatus, dst, disk, runs, argv, exportedIds, copySuccess,
                 log, closeCount, toUnarchive, i, item, console, lastRun>>

\* ArchiveFail that also rolls the destination copy back
ArchiveFailRollsBack ==
  /\ pc = "archive"
  /\ dst' = dst \ {item.id}
  /\ ArchiveLoop(i + 1, exportedIds,
                 addComment(addComment(log, "ARCHIVE FAILED", item.id),
                            "Error", 0),
                 Settle(calls, "error"))
  /\ UNCHANGED <<xvars, filterCall, client,
                 srcStatus, runs, argv, exportedIds, copySuccess,
                 toUnarchive, item, console, lastRun>>

\* ArchiveFail that logs the item as moved all the same
ArchiveFailLogsMoved ==
  /\ pc = "archive"
  /\ ArchiveLoop(i + 1, exportedIds, addAction(log, "MOVED", item.id),
                 Settle(calls, "error"))
  /\ UNCHANGED <<xvars, filterCall, client,
                 srcStatus, dst, runs, argv, exportedIds, copySuccess,
                 toUnarchive, item, console, lastRun>>

\* lines 227-230, 221-233: archive rejected; two comments are logged, next
\* iteration
ArchiveFail ==
  /\ pc = "archive"
  /\ ArchiveLoop(i + 1, exportedIds,
                 addComment(addComment(log, "ARCHIVE FAILED", item.id),
                            "Error", 0),
                 Settle(calls, "error"))
  /\ UNCHANGED <<xvars, filterCall, client,
                 srcStatus, dst, runs, argv, exportedIds, copySuccess,
                 toUnarchive, item, console, lastRun>>

\* ----------------------------------------------------------- revert path
\* what the import-revert collaborator can leave at the destination: it
\* rolls back some of the items created there
RevertOutcomes(d) == SUBSET d

\* RevertArgs with the source hub where the destination hub belongs
RevertArgsSourceHub ==
  [hubId |-> hubId,
   clientId |-> OrElse(argv.dstClientId, clientId),
   clientSecret |-> OrElse(argv.dstSecret, clientSecret),
   revertLog |-> argv.revertLog]

\* lines 182-198: the arguments handed to the import-revert collaborator
RevertArgs ==
  [hubId |-> OrElse(argv.dstHubId, hubId),
   clientId |-> OrElse(argv.dstClientId, clientId),
   clientSecret |-> OrElse(argv.dstSecret, clientSecret),
   revertLog |-> argv.revertLog]

\* lines 159-198: the head of the unarchive loop at index n: either the next
\* item is requested, or the loop is over and import-revert is invoked
UnarchiveLoop(n, moved, newConsole, newCalls) ==
  /\ i' = n
  /\ console' = newConsole
  /\ IF n <= Len(moved)
     THEN /\ calls' = Append(newCalls, Call("get", moved[n]))
          /\ pc' = "rget"
     ELSE /\ calls' = Append(newCalls, CallWith("revert", RevertArgs))
          /\ pc' = "revert"

\* LoadFail without the return of line 154: the revert goes on with the
\* empty log
LoadFailContinues ==
  /\ pc = "load"
  /\ ~canLoad(disk, argv.revertLog)
  /\ UnarchiveLoop(1, <<>>, Append(console, CouldNotOpen),
                   Settle(calls, "error"))
  /\ UNCHANGED <<xvars, filterCall, client,
                 srcStatus, dst, disk, runs, argv, exportedIds, copySuccess,
                 log, closeCount, toUnarchive, item, lastRun>>

\* lines 150-155: loadFromFile rejected; a message is printed and the
\* handler returns
LoadFail ==
  /\ pc = "load"
  /\ ~canLoad(disk, argv.revertLog)
  /\ console' = Append(console, CouldNotOpen)
  /\ calls' = Settle(calls, "error")
  /\ pc' = "done"
  /\ UNCHANGED <<xvars, filterCall, client,
                 srcStatus, dst, disk, runs, argv, exportedIds, copySuccess,
                 log, closeCount, toUnarchive, i, item, lastRun>>

\* lines 151-164: the log is loaded, its MOVED entries are read and the
\* unarchive loop is entered
LoadOk ==
  /\ pc = "load"
  /\ canLoad(disk, argv.revertLog)
  /\ log' = loadFromFile(disk, argv.revertLog)
  /\ toUnarchive' = getData(log', "MOVED")
  /\ UnarchiveLoop(1, toUnarchive', console, Settle(calls, "ok"))
  /\ UNCHANGED <<xvars, filterCall, client,
                 srcStatus, dst, disk, runs, argv, exportedIds, copySuccess,
                 closeCount, item, lastRun>>

\* RevertGetOk without the status check of line 170
RevertGetOkNoCheck ==
  /\ pc = "rget"
  /\ item' = [id |-> toUnarchive[i], status |-> srcStatus[toUnarchive[i]]]
  /\ calls' = Append(Settle(calls, "ok"), Call("unarchive", toUnarchive[i]))
  /\ pc' = "unarchive"
  /\ UNCHANGED <<xvars, filterCall, client,
                 srcStatus, dst, disk, runs, argv, exportedIds, copySuccess,
                 log, closeCount, toUnarchive, i, console, lastRun>>

\* lines 164-179: contentItems.get resolved; unarchive is invoked unless
\* the item is active already
RevertGetOk ==
  /\ pc = "rget"
  /\ item' = [id |-> toUnarchive[i], status |-> srcStatus[toUnarchive[i]]]
  /\ IF srcStatus[toUnarchive[i]] # ACTIVE
     THEN /\ calls' = Append(Settle(calls, "ok"),
                              Call("unarchive", toUnarchive[i]))
          /\ pc' = "unarchive"
          /\ UNCHANGED <<i, console>>
     ELSE UnarchiveLoop(i + 1, toUnarchive,
                        Append(console, AlreadyUnarchived(toUnarchive[i])),
                        Settle(calls, "ok"))
  /\ UNCHANGED <<xvars, filterCall, client,
                 srcStatus, dst, disk, runs, argv, exportedIds, copySuccess,
                 log, closeCount, toUnarchive, lastRun>>

\* RevertGetFail without the catch of lines 165-168: the rejection escapes
RevertGetFailThrows ==
  /\ pc = "rget"
  /\ calls' = Settle(calls, "error")
  /\ pc' = "threw"
  /\ UNCHANGED <<xvars, filterCall, client,
                 srcStatus, dst, disk, runs, argv, exportedIds, copySuccess,
                 log, closeCount, toUnarchive, i, item, console, lastRun>>

\* lines 163-168: contentItems.get rejected; the id is skipped
RevertGetFail ==
  /\ pc = "rget"
  /\ UnarchiveLoop(i + 1, toUnarchive,
                   Append(console, CouldNotFind(toUnarchive[i])),
                   Settle(calls, "error"))
  /\ UNCHANGED <<xvars, filterCall, client,
                 srcStatus, dst, disk, runs, argv, exportedIds, copySuccess,
                 log, closeCount, toUnarchive, item, lastRun>>

\* lines 171-172: unarchive resolved
UnarchiveOk ==
  /\ pc = "unarchive"
  /\ srcStatus' = unarchive(srcStatus, item.id)
  /\ UnarchiveLoop(i + 1, toUnarchive, console, Settle(calls, "ok"))
  /\ UNCHANGED <<xvars, filterCall, client,
                 dst, disk, runs, argv, exportedIds, copySuccess, log,
                 closeCount, toUnarchive, item, lastRun>>

\* UnarchiveFail that ends the revert there, import-revert not invoked
UnarchiveFailAborts ==
  /\ pc = "unarchive"
  /\ console' = Append(console, CouldNotUnarchive(item.id))
  /\ calls' = Settle(calls, "error")
  /\ pc' = "done"
  /\ UNCHANGED <<xvars, filterCall, client,
                 srcStatus, dst, disk, runs, argv, exportedIds, copySuccess,
                 log, closeCount, toUnarchive, i, item, lastRun>>

\* lines 173-176: unarchive rejected; the id is skipped
UnarchiveFail ==
  /\ pc = "unarchive"
  /\ UnarchiveLoop(i + 1, toUnarchive,
                   Append(console, CouldNotUnarchive(item.id)),
                   Settle(calls, "error"))
  /\ UNCHANGED <<xvars, filterCall, client,
                 srcStatus, dst, disk, runs, argv, exportedIds, copySuccess,
                 log, closeCount, toUnarchive, item, lastRun>>

\* ImportRevertDone that logs the first reverted id as moved and closes the
\* log
ImportRevertDoneLogsMoved ==
  /\ pc = "revert"
  /\ dst' \in RevertOutcomes(dst)
  /\ calls' = Settle(calls, "ok")
  /\ log' = addAction(log, "MOVED", 1)
  /\ disk' = close(disk, argv.revertLog, log')
  /\ closeCount' = closeCount + 1
  /\ pc' = "done"
  /\ UNCHANGED <<xvars, filterCall, client,
                 srcStatus, runs, argv, exportedIds, copySuccess,
                 toUnarchive, i, item, console, lastRun>>

\* line 188: the import-revert collaborator resolved, having rolled back
\* destination items; the handler returns
ImportRevertDone ==
  /\ pc = "revert"
  /\ dst' \in RevertOutcomes(dst)
  /\ calls' = Settle(calls, "ok")
  /\ pc' = "done"
  /\ UNCHANGED <<xvars, filterCall, client,
                 srcStatus, disk, runs, argv, exportedIds, copySuccess, log,
                 closeCount, toUnarchive, i, item, console, lastRun>>

\* ------------------------------------------------- event export command
\* the move command does nothing: the state of its variables while the
\* export command is modelled
MoveIdle ==
  /\ srcStatus = [id \in Ids |-> ACTIVE]
  /\ dst = {}
  /\ disk = [p \in Paths |-> NoFile]
  /\ runs = 0
  /\ pc = "idle"
  /\ argv = NoArgv
  /\ exportedIds = <<>>
  /\ copySuccess = FALSE
  /\ log = <<>>
  /\ closeCount = 0
  /\ toUnarchive = <<>>
  /\ i = 1
  /\ item = NoItem
  /\ console = <<>>
  /\ calls = <<>>
  /\ lastRun = [revertLog |-> Null, clean |-> FALSE, unarchived |-> 0,
                closedLog |-> Null, archived |-> <<>>]
  /\ client = NoClient

\* line 223: the output directory as loadJsonFromDirectory finds it; a
\* directory that holds files exists
XInit ==
  /\ MoveIdle
  /\ xpc = "idle"
  /\ xid = Null
  /\ index \in IndexSeqs
  /\ batch = <<>>
  /\ evIdx = 1
  /\ editionsLeft = 0
  /\ records = <<>>
  /\ dirExists \in (IF index = <<>> THEN BOOLEAN ELSE {TRUE})
  /\ ensured = 0
  /\ written = <<>>
  /\ rows = <<>>
  /\ xlog = <<>>
  /\ xclosed = 0
  /\ fetches = {}
  /\ prompts = 0
  /\ tiers = <<>>
  /\ notice = Null
  /\ filterCall = NoFilterCall

\* lines of the export log
HubError == "Couldn't get hub, aborting."
EventError == "Failed to get event, aborting."
ExportingSingle == "Exporting single event."
ExportingList == "Exporting events..."
ListError == "Failed to list events."
FetchingLine == "Fetching with editions."
EditionsError == "Failed to fetch editions, skipping."
DoneLine == "Done."

\* messages of nothingExportedExit
NoEvents == "No events to export from this hub, exiting."
NothingExported == "Nothing was exported, exiting."

\* lines 215-229: the handler is invoked, for one event (id) or for the
\* events of the hub (Null); the hub is requested
XStart(id) ==
  /\ xpc = "idle"
  /\ xid' = id
  /\ fetches' = fetches \cup {"hub"}
  /\ xpc' = "hub"
  /\ UNCHANGED <<mvars, filterCall, index, batch, evIdx, editionsLeft, records, dirExists,
                 ensured, written, rows, xlog, xclosed, prompts, tiers, notice>>

\* HubFail that carries on to the event list
HubFailContinues ==
  /\ xpc = "hub"
  /\ xlog' = Append(xlog, HubError)
  /\ fetches' = fetches \cup {"list"}
  /\ xpc' = "list"
  /\ UNCHANGED <<mvars, filterCall, xid, index, batch, evIdx, editionsLeft, records,
                 dirExists, ensured, written, rows, xclosed, prompts, tiers,
                 notice>>

\* lines 230-234: hubs.get rejected; the error is logged, the log closed
HubFail ==
  /\ xpc = "hub"
  /\ xlog' = Append(xlog, HubError)
  /\ xclosed' = xclosed + 1
  /\ xpc' = "done"
  /\ UNCHANGED <<mvars, filterCall, xid, index, batch, evIdx, editionsLeft, records,
                 dirExists, ensured, written, rows, fetches, prompts, tiers,
                 notice>>

\* lines 229, 236-248: hubs.get resolved; the single event or the list of
\* events is requested
HubOk ==
  /\ xpc = "hub"
  /\ IF xid # Null
     THEN /\ fetches' = fetches \cup {"event"}
          /\ xpc' = "event"
     ELSE /\ fetches' = fetches \cup {"list"}
          /\ xpc' = "list"
  /\ UNCHANGED <<mvars, filterCall, xid, index, batch, evIdx, editionsLeft, records,
                 dirExists, ensured, written, rows, xlog, xclosed, prompts,
                 tiers, notice>>

\* lines 241-245: events.get rejected; the error is logged, the log closed
EventGetFail ==
  /\ xpc = "event"
  /\ xlog' = Append(xlog, EventError)
  /\ xclosed' = xclosed + 1
  /\ xpc' = "done"
  /\ UNCHANGED <<mvars, filterCall, xid, index, batch, evIdx, editionsLeft, records,
                 dirExists, ensured, written, rows, fetches, prompts, tiers,
                 notice>>

\* Exports that goes on to the output directory with no record to write
ExportsWithoutRecords(b, lg, t) ==
  LET x == getEventExports(index, WithEditions(b)) IN
  /\ batch' = b
  /\ tiers' = t
  /\ index' = x.index
  /\ records' = x.allExports
  /\ IF x.allExports = <<>>
     THEN /\ ensured' = ensured + 1
          /\ xlog' = lg
          /\ xpc' = "ensure"
          /\ UNCHANGED <<prompts, xclosed, notice>>
     ELSE IF x.updatedExportsMap # <<>>
     THEN /\ prompts' = prompts + 1
          /\ xlog' = lg
          /\ xpc' = "prompt"
          /\ UNCHANGED <<ensured, xclosed, notice>>
     ELSE /\ ensured' = ensured + 1
          /\ xlog' = lg
          /\ xpc' = "ensure"
          /\ UNCHANGED <<prompts, xclosed, notice>>

\* Exports that goes on to the output directory without the confirmation
ExportsWithoutPrompt(b, lg, t) ==
  LET x == getEventExports(index, WithEditions(b)) IN
  /\ batch' = b
  /\ tiers' = t
  /\ index' = x.index
  /\ records' = x.allExports
  /\ IF x.allExports = <<>>
     THEN /\ notice' = NothingExported
          /\ xlog' = Append(lg, DoneLine)
          /\ xclosed' = xclosed + 1
          /\ xpc' = "done"
          /\ UNCHANGED <<prompts, ensured>>
     ELSE IF x.updatedExportsMap # <<>>
     THEN /\ ensured' = ensured + 1
          /\ xlog' = lg
          /\ xpc' = "ensure"
          /\ UNCHANGED <<prompts, xclosed, notice>>
     ELSE /\ ensured' = ensured + 1
          /\ xlog' = lg
          /\ xpc' = "ensure"
          /\ UNCHANGED <<prompts, xclosed, notice>>

\* lines 175-184, 261-263: the records of the enriched events b; with no
\* record the run ends with the notice, with an UPDATED record the
\* confirmation is requested, otherwise the directory is ensured
Exports(b, lg, t) ==
  LET x == getEventExports(index, WithEditions(b)) IN
  /\ batch' = b
  /\ tiers' = t
  /\ index' = x.index
  /\ records' = x.allExports
  /\ IF x.allExports = <<>>
     THEN /\ notice' = NothingExported
          /\ xlog' = Append(lg, DoneLine)
          /\ xclosed' = xclosed + 1
          /\ xpc' = "done"
          /\ UNCHANGED <<prompts, ensured>>
     ELSE IF x.updatedExportsMap # <<>>
     THEN /\ prompts' = prompts + 1
          /\ xlog' = lg
          /\ xpc' = "prompt"
          /\ UNCHANGED <<ensured, xclosed, notice>>
     ELSE /\ ensured' = ensured + 1
          /\ xlog' = lg
          /\ xpc' = "ensure"
          /\ UNCHANGED <<prompts, xclosed, notice>>

\* lines 81-89, 98-100: the loop of enrichEvents at its n-th event of b, with
\* log lg, requests f and outcomes t; after the last event the enriched
\* events are filtered and the records are computed
enrichEvents(n, b, lg, f, t) ==
  /\ evIdx' = n
  /\ IF n <= Len(b)
     THEN /\ batch' = b
          /\ tiers' = t
          /\ xlog' = Append(lg, FetchingLine)
          /\ fetches' = f \cup {"editions"}
          /\ xpc' = "editions"
          /\ UNCHANGED <<index, records, prompts, ensured, xclosed, notice>>
     ELSE /\ fetches' = f
          /\ Exports(b, lg, t)

\* lines 168-173, 259-263: processEvents on the events b; with no event the
\* run ends with the notice
processEvents(b, lg, f) ==
  IF b = <<>>
  THEN /\ batch' = b
       /\ notice' = NoEvents
       /\ xlog' = Append(lg, DoneLine)
       /\ xclosed' = xclosed + 1
       /\ xpc' = "done"
       /\ fetches' = f
       /\ UNCHANGED <<evIdx, tiers, index, records, prompts, ensured>>
  ELSE enrichEvents(1, b, lg, f, <<>>)

\* lines 239-240, 259: events.get resolved with the event of that id
EventGetOk(name) ==
  /\ xpc = "event"
  /\ processEvents(<<Event(xid, name)>>, Append(xlog, ExportingSingle),
                    fetches)
  /\ UNCHANGED <<mvars, filterCall, xid, editionsLeft, dirExists, written, rows>>

\* the events of a list of stored events, as the export handles them
RECURSIVE AsEvents(_)
AsEvents(stored) ==
  IF stored = <<>> THEN <<>>
  ELSE <<AsEvent(Head(stored))>> \o AsEvents(Tail(stored))

\* the stored events a list request can resolve with, and the dates of argv
StoredSeqs == UNION {[1..n -> StoredEvents] : n \in 0..MaxBatch}
DateArgs == {NoDate} \cup Dates

\* lines 220-221, 248-250: what filterEvents leaves of the stored events the
\* list resolved with, for the dates of argv (NoDate: not given)
FilteredSeqs ==
  {AsEvents(filterEvents(storedEvents, from, to)) :
     storedEvents \in StoredSeqs, from \in DateArgs, to \in DateArgs}

\* lines 248-252, 259: the list resolved; the filtered events are exported
ListOk(filteredEvents) ==
  /\ xpc = "list"
  /\ processEvents(filteredEvents, Append(xlog, ExportingList), fetches)
  /\ UNCHANGED <<mvars, filterCall, xid, editionsLeft, dirExists, written, rows>>

\* ListFail that aborts the run as a hub failure does
ListFailAborts ==
  /\ xpc = "list"
  /\ xlog' = Append(xlog, ListError)
  /\ xclosed' = xclosed + 1
  /\ xpc' = "done"
  /\ UNCHANGED <<mvars, filterCall, xid, index, batch, evIdx, editionsLeft, records,
                 dirExists, ensured, written, rows, fetches, prompts, tiers,
                 notice>>

\* lines 253-256, 259: the list rejected; the export goes on with no event
ListFail ==
  /\ xpc = "list"
  /\ processEvents(<<>>, Append(xlog, ListError), fetches)
  /\ UNCHANGED <<mvars, filterCall, xid, editionsLeft, dirExists, written, rows>>

\* line 90: the event of position n with its editions assigned
Enriched(b, n) == [b EXCEPT ![n].editions = Fetched]

\* lines 89-90, 71-73: the editions of the event were listed, n of them; with
\* none the event is enriched, otherwise the slots of the first are requested
EditionsOk(n) ==
  /\ xpc = "editions"
  /\ editionsLeft' = n
  /\ IF n = 0
     THEN enrichEvents(evIdx + 1, Enriched(batch, evIdx), xlog, fetches,
                       Append(tiers, "ok"))
     ELSE /\ fetches' = fetches \cup {"slots"}
          /\ xpc' = "slots"
          /\ UNCHANGED <<index, batch, evIdx, records, ensured, xlog, xclosed,
                         prompts, tiers, notice>>
  /\ UNCHANGED <<mvars, filterCall, xid, dirExists, written, rows>>

\* lines 89, 91-95: listing the editions rejected; the error is logged and
\* the event keeps no editions
EditionsFail ==
  /\ xpc = "editions"
  /\ enrichEvents(evIdx + 1, batch, Append(xlog, EditionsError), fetches,
                  Append(tiers, "editions"))
  /\ UNCHANGED <<mvars, filterCall, xid, editionsLeft, dirExists, written, rows>>

\* lines 71-77, 90: the slots of an edition were listed; the slots of the
\* next edition are requested, after the last the event is enriched
SlotsOk ==
  /\ xpc = "slots"
  /\ editionsLeft' = editionsLeft - 1
  /\ IF editionsLeft > 1
     THEN /\ fetches' = fetches \cup {"slots"}
          /\ UNCHANGED <<xpc, index, batch, evIdx, records, ensured, xlog,
                         xclosed, prompts, tiers, notice>>
     ELSE enrichEvents(evIdx + 1, Enriched(batch, evIdx), xlog, fetches,
                       Append(tiers, "ok"))
  /\ UNCHANGED <<mvars, filterCall, xid, dirExists, written, rows>>

\* SlotsFail that keeps the editions listed so far on the event
SlotsFailKeepsEvent ==
  /\ xpc = "slots"
  /\ editionsLeft' = 0
  /\ enrichEvents(evIdx + 1, Enriched(batch, evIdx), Append(xlog, EditionsError), fetches,
                  Append(tiers, "slots"))
  /\ UNCHANGED <<mvars, filterCall, xid, dirExists, written, rows>>

\* lines 73, 90-95: listing the slots of an edition rejected; the editions
\* are not assigned, the error is logged
SlotsFail ==
  /\ xpc = "slots"
  /\ editionsLeft' = 0
  /\ enrichEvents(evIdx + 1, batch, Append(xlog, EditionsError), fetches,
                  Append(tiers, "slots"))
  /\ UNCHANGED <<mvars, filterCall, xid, dirExists, written, rows>>

\* lines 178, 184: the overwrite was confirmed; the directory is ensured
PromptYes ==
  /\ xpc = "prompt"
  /\ ensured' = ensured + 1
  /\ xpc' = "ensure"
  /\ UNCHANGED <<mvars, filterCall, xid, index, batch, evIdx, editionsLeft, records,
                 dirExists, written, rows, xlog, xclosed, fetches, prompts,
                 tiers, notice>>

\* PromptNo that ensures the output directory before it ends the run
PromptNoCreatesDirectory ==
  /\ xpc = "prompt"
  /\ ensured' = ensured + 1
  /\ dirExists' = TRUE
  /\ notice' = NothingExported
  /\ xlog' = Append(xlog, DoneLine)
  /\ xclosed' = xclosed + 1
  /\ xpc' = "done"
  /\ UNCHANGED <<mvars, filterCall, xid, index, batch, evIdx, editionsLeft, records,
                 written, rows, fetches, prompts, tiers>>

\* lines 178-182, 261-263: the overwrite was declined; the run ends with the
\* notice
PromptNo ==
  /\ xpc = "prompt"
  /\ notice' = NothingExported
  /\ xlog' = Append(xlog, DoneLine)
  /\ xclosed' = xclosed + 1
  /\ xpc' = "done"
  /\ UNCHANGED <<mvars, filterCall, xid, index, batch, evIdx, editionsLeft, records,
                 dirExists, ensured, written, rows, fetches, prompts, tiers>>

\* lines 188-194: what the loop has written after n records: the files, and
\* the rows of the table
Files(n) ==
  [m \in 1..n |-> [filename |-> records[m].filename,
                   content |-> WithoutId(records[m].event)]]

Rows(n) ==
  [m \in 1..n |-> [filename |-> records[m].filename,
                   name |-> records[m].event.name,
                   status |-> records[m].status]]

\* EnsureOk that writes the events with their id
EnsureOkKeepsId ==
  /\ xpc = "ensure"
  /\ dirExists' = TRUE
  /\ written' = [m \in 1..Len(records) |->
                   [filename |-> records[m].filename,
                    content |-> records[m].event]]
  /\ rows' = Rows(Len(records))
  /\ xlog' = Append(xlog, DoneLine)
  /\ xclosed' = xclosed + 1
  /\ xpc' = "done"
  /\ UNCHANGED <<mvars, filterCall, xid, index, batch, evIdx, editionsLeft, records,
                 ensured, fetches, prompts, tiers, notice>>

\* lines 184-195, 261-263: the directory exists now; every record is written
\* and reported, the log is closed
EnsureOk ==
  /\ xpc = "ensure"
  /\ dirExists' = TRUE
  /\ written' = Files(Len(records))
  /\ rows' = Rows(Len(records))
  /\ xlog' = Append(xlog, DoneLine)
  /\ xclosed' = xclosed + 1
  /\ xpc' = "done"
  /\ UNCHANGED <<mvars, filterCall, xid, index, batch, evIdx, editionsLeft, records,
                 ensured, fetches, prompts, tiers, notice>>

\* lines 184, 259: ensureDirectoryExists rejected; processEvents and the
\* handler reject with it
EnsureFail ==
  /\ xpc = "ensure"
  /\ xpc' = "threw"
  /\ UNCHANGED <<mvars, filterCall, xid, index, batch, evIdx, editionsLeft, records,
                 dirExists, ensured, written, rows, xlog, xclosed, fetches,
                 prompts, tiers, notice>>

\* lines 184-194, 259: the directory exists now; writeJsonToFile throws on
\* the n-th record, processEvents and the handler reject with it
WriteThrows(n) ==
  /\ xpc = "ensure"
  /\ n \in 1..Len(records)
  /\ dirExists' = TRUE
  /\ written' = Files(n - 1)
  /\ rows' = Rows(n - 1)
  /\ xpc' = "threw"
  /\ UNCHANGED <<mvars, filterCall, xid, index, batch, evIdx, editionsLeft, records,
                 ensured, xlog, xclosed, fetches, prompts, tiers, notice>>

XNext ==
  \/ \E id \in BatchIds : XStart(id)
  \/ HubFail
  \/ HubOk
  \/ EventGetFail
  \/ \E name \in Names : EventGetOk(name)
  \/ \E filteredEvents \in FilteredSeqs : ListOk(filteredEvents)
  \/ ListFail
  \/ \E n \in 0..MaxEditions : EditionsOk(n)
  \/ EditionsFail
  \/ SlotsOk
  \/ SlotsFail
  \/ PromptYes
  \/ PromptNo
  \/ EnsureOk
  \/ EnsureFail
  \/ \E n \in 1..MaxBatch : WriteThrows(n)

SpecExport == XInit /\ [][XNext]_vars

\* ------------------------------------------------- filterEvents on its own
\* lines 198: filterEvents is called with a list of stored events and the
\* two dates, each given or not
FilterInit ==
  /\ MoveIdle
  /\ ExportIdle
  /\ filterCall \in
       {[events |-> events, from |-> from, to |-> to, result |-> <<>>,
         returned |-> FALSE] :
          events \in StoredSeqs, from \in DateArgs, to \in DateArgs}

\* lines 199-212: filterEvents returns
FilterReturn ==
  /\ ~filterCall.returned
  /\ filterCall' =
       [filterCall EXCEPT
          !.result = filterEvents(filterCall.events, filterCall.from,
                                  filterCall.to),
          !.returned = TRUE]
  /\ UNCHANGED <<mvars, xvars>>

FilterNext == FilterReturn

SpecFilter == FilterInit /\ [][FilterNext]_vars

\* ------------------------------------------------------------------ Next
Next ==
  \/ \E logFile \in Paths : StartMove(logFile)
  \/ \E revertLog \in Paths, dHub \in DstHubArgs, dClient \in DstClientArgs,
        dSecret \in DstSecretArgs :
       StartRevert(revertLog, dHub, dClient, dSecret)
  \/ CopyFailed
  \/ CopySucceeded
  \/ GetOk
  \/ GetFail
  \/ ArchiveOk
  \/ ArchiveFail
  \/ LoadFail
  \/ LoadOk
  \/ RevertGetOk
  \/ RevertGetFail
  \/ UnarchiveOk
  \/ UnarchiveFail
  \/ ImportRevertDone

Spec == Init /\ [][Next]_vars

TypeOK ==
  /\ srcStatus \in [Ids -> Statuses]
  /\ dst \subseteq Ids
  /\ runs \in 0..MaxRuns
  /\ pc \in {"idle", "copy", "get", "archive", "load", "rget", "unarchive",
             "revert", "done", "threw"}
  /\ closeCount \in 0..1

\* ============================================================== claims
OnForward == argv.logFile # Null
OnRevert == argv.revertLog # Null
Ended == pc \in {"done", "threw"}

\* the ids of the recorded calls of operation op, in call order
RECURSIVE IdsOf(_, _)
IdsOf(c, op) ==
  IF c = <<>> THEN <<>>
  ELSE IF Head(c).op = op THEN <<Head(c).id>> \o IdsOf(Tail(c), op)
       ELSE IdsOf(Tail(c), op)

IndexOf(seq, x) == CHOOSE k \in 1..Len(seq) : seq[k] = x

\* C1: on the forward path archive() is invoked only after copy.handler
\* resolved true; when it resolved false the handler has returned with no
\* source item fetched or archived and no MOVED entry in the log.
C1_ArchiveOnlyAfterCopySuccess ==
  OnForward =>
    /\ calls[1].op = "copy"
    /\ (CallsTo("get") \cup CallsTo("archive")) # {} =>
         copySuccess /\ calls[1].result = "ok"
    /\ (calls[1].result = "ok" /\ ~copySuccess) =>
         /\ pc = "done"
         /\ CallsTo("get") = {}
         /\ CallsTo("archive") = {}
         /\ getData(log, "MOVED") = <<>>

\* copy failed after exporting ids and creating part of them at the
\* destination, and the handler returned
C1_Witness ==
  /\ OnForward /\ pc = "done" /\ ~copySuccess
  /\ Len(exportedIds) = NumIds
  /\ dst # {}
  /\ \E id \in Range(exportedIds) : srcStatus[id] = ACTIVE

\* C2: a pass of the archive phase that reaches an item which an earlier
\* pass logged as MOVED and which is archived already appends no further
\* MOVED entry for it.
C2_NoSecondMovedEntry ==
  [][(/\ pc = "archive"
      /\ item.status = ARCHIVED
      /\ disk[argv.logFile] # NoFile
      /\ item.id \in Range(getData(disk[argv.logFile], "MOVED")))
     => getData(log', "MOVED") = getData(log, "MOVED")]_vars

\* C3: in the archive phase archive() is called only on a fetched item whose
\* status is not archived already.
C3_ArchiveOnlyIfNotArchived ==
  (OnForward /\ pc = "archive") => item.status # ARCHIVED

\* C4: in the archive phase a failed fetch skips that id only: when the
\* handler has ended after a successful copy, every id of exportedIds was
\* fetched, the ids after a failed fetch included.
C4_FetchFailureSkipsOneId ==
  (OnForward /\ copySuccess /\ Ended) => IdsOf(calls, "get") = exportedIds

\* C5: when archive() fails for an id, the two comments (the failed id, the
\* error) are in the log, no MOVED entry is logged for that id, and the loop
\* goes on: the next id of exportedIds is fetched, or after the last id the
\* log is closed and the handler returns.
C5_ArchiveFailureIsPerItem ==
  OnForward =>
    \A c \in CallsOf("archive", "error") :
      LET id == calls[c].id
          k == IndexOf(exportedIds, id)
      IN /\ \E n \in 1..(Len(log) - 1) :
              /\ log[n] = Comment("ARCHIVE FAILED", id)
              /\ log[n + 1] = Comment("Error", 0)
         /\ id \notin Range(getData(log, "MOVED"))
         /\ IF k < Len(exportedIds)
            THEN /\ c < Len(calls)
                 /\ calls[c + 1].op = "get"
                 /\ calls[c + 1].id = exportedIds[k + 1]
            ELSE /\ c = Len(calls)
                 /\ pc = "done"
                 /\ closeCount = 1

\* archive() failed for one id and a later id was archived and logged
C5_Witness ==
  /\ OnForward /\ pc = "done"
  /\ \E c \in CallsOf("archive", "error"), d \in CallsOf("archive", "ok") :
       /\ c < d
       /\ calls[d].id \in Range(getData(log, "MOVED"))

\* C6: a forward run that has ended closed its log exactly once.
C6_LogClosedExactlyOnce ==
  (OnForward /\ Ended) => closeCount = 1

\* a step of the forward path removes no destination copy and changes the
\* status of a source item only by archiving one that has a destination copy
ForwardStepKeepsItems ==
  pc \in {"copy", "get", "archive"} =>
    /\ dst \subseteq dst'
    /\ \A id \in Ids :
         srcStatus'[id] # srcStatus[id] =>
           srcStatus'[id] = ARCHIVED /\ id \in dst'

\* C7: the forward path never removes a destination copy, changes the
\* status of a source item only by archiving an item that has a destination
\* copy, and every item whose archive() succeeded in this run has one.
C7_ActiveAtSourceOrAtDestination ==
  /\ [](OnForward =>
         \A c \in CallsOf("archive", "ok") : calls[c].id \in dst)
  /\ [][ForwardStepKeepsItems]_vars

\* an archive() failed, another item was archived, and every exported item
\* is at the destination
C7_Witness ==
  /\ OnForward /\ pc = "done"
  /\ CallsOf("archive", "error") # {}
  /\ CallsOf("archive", "ok") # {}
  /\ Range(exportedIds) \subseteq dst
  /\ \E id \in Range(exportedIds) : srcStatus[id] = ACTIVE

\* C8: on the revert path, when the log cannot be loaded the handler has
\* returned after that one call: nothing fetched, nothing unarchived, the
\* import-revert collaborator not invoked.
C8_LoadFailureRevertsNothing ==
  (OnRevert /\ calls[1].result = "error") =>
    /\ calls[1].op = "loadFromFile"
    /\ Len(calls) = 1
    /\ pc = "done"
    /\ console = <<CouldNotOpen>>

\* the log could not be loaded while an archived source item existed
C8_Witness ==
  /\ OnRevert /\ pc = "done"
  /\ calls[1].result = "error"
  /\ \E id \in Ids : srcStatus[id] = ARCHIVED

\* C9: on the revert path with the log loaded the handler never rejects; a
\* failed fetch or unarchive prints its skip message; every MOVED id is
\* fetched, in order; a fetched item is unarchived or reported active; and
\* the import-revert collaborator is the last call, made once.
C9_RevertFailuresAreSkipped ==
  (OnRevert /\ calls[1].result = "ok") =>
    /\ pc # "threw"
    /\ \A c \in CallsOf("get", "error") :
         CouldNotFind(calls[c].id) \in Range(console)
    /\ \A c \in CallsOf("unarchive", "error") :
         CouldNotUnarchive(calls[c].id) \in Range(console)
    /\ \A c \in CallsOf("get", "ok") :
         \/ calls[c + 1].op = "unarchive" /\ calls[c + 1].id = calls[c].id
         \/ AlreadyUnarchived(calls[c].id) \in Range(console)
    /\ pc \in {"revert", "done"} =>
         /\ IdsOf(calls, "get") = toUnarchive
         /\ CallsTo("revert") = {Len(calls)}
    /\ pc = "done" => calls[Len(calls)].result = "ok"

\* a fetch failed, a later item's unarchive was attempted, and the
\* import-revert collaborator returned
C9_Witness ==
  /\ OnRevert /\ pc = "done"
  /\ \E c \in CallsOf("get", "error"), d \in CallsTo("unarchive") : c < d
  /\ CallsOf("revert", "ok") # {}

\* C10: on the revert path unarchive() is outstanding only on a fetched item
\* that is not active; a revert that follows a revert of the same log in
\* which every call succeeded makes no unarchive() call.
C10_UnarchiveOnlyIfNotActive ==
  OnRevert =>
    /\ pc = "unarchive" =>
         /\ item.status # ACTIVE
         /\ srcStatus[item.id] # ACTIVE
         /\ calls[Len(calls)] = Call("unarchive", item.id)
         /\ item.id = toUnarchive[i]
    /\ (lastRun.clean /\ lastRun.revertLog = argv.revertLog) =>
         CallsTo("unarchive") = {}

\* the second revert of a log, after a first one that unarchived items and
\* met no failure, fetched the items again and returned
C10_Witness ==
  /\ OnRevert /\ pc = "done"
  /\ lastRun.clean /\ lastRun.revertLog = argv.revertLog
  /\ lastRun.unarchived > 0
  /\ Cardinality(CallsOf("get", "ok")) = Len(toUnarchive)

\* C11: a revert in which every call succeeded, run right after a forward
\* move that completed and closed the log being reverted, attempts to
\* unarchive exactly the ids whose archive() succeeded in the move, in that
\* order, and leaves every one of them active at the source.
C11_RevertRestoresMovedItems ==
  (/\ OnRevert /\ pc = "done"
   /\ \A n \in 1..Len(calls) : calls[n].result = "ok"
   /\ lastRun.closedLog = argv.revertLog)
  => /\ IdsOf(calls, "unarchive") = lastRun.archived
     /\ toUnarchive = lastRun.archived
     /\ \A id \in Range(lastRun.archived) : srcStatus[id] = ACTIVE

\* such a revert, after a move that archived every item and met one failure
C11_Witness ==
  /\ OnRevert /\ pc = "done"
  /\ \A n \in 1..Len(calls) : calls[n].result = "ok"
  /\ lastRun.closedLog = argv.revertLog
  /\ Len(lastRun.archived) = NumIds
  /\ IdsOf(calls, "unarchive") = lastRun.archived

\* C12: the import-revert collaborator receives, field by field, the
\* destination hub, client id and secret where argv gives one and the source
\* value where it does not, with the log path that was loaded; the client
\* that fetches and unarchives has the source credentials.
C12_RevertCredentials ==
  OnRevert =>
    /\ client = [hubId |-> hubId, clientId |-> clientId,
                 clientSecret |-> clientSecret]
    /\ \A c \in CallsTo("revert") :
         /\ calls[c].args.hubId =
              (IF argv.dstHubId # Null THEN argv.dstHubId ELSE hubId)
         /\ calls[c].args.clientId =
              (IF argv.dstClientId # Null THEN argv.dstClientId ELSE clientId)
         /\ calls[c].args.clientSecret =
              (IF argv.dstSecret # Null THEN argv.dstSecret ELSE clientSecret)
         /\ calls[c].args.revertLog = calls[1].args.revertLog
         /\ calls[1].op = "loadFromFile"

\* import-revert returned, called with a destination hub and the source
\* secret, after an item was unarchived
C12_Witness ==
  /\ OnRevert /\ pc = "done"
  /\ argv.dstHubId # Null /\ argv.dstSecret = Null
  /\ \E c \in CallsOf("revert", "ok") :
       calls[c].args.hubId = argv.dstHubId
  /\ CallsOf("unarchive", "ok") # {}

\* ------------------------------------------------ claims on the export
\* enrichEvents has returned and getEventExports has computed the records
Computed == batch # <<>> /\ evIdx > Len(batch)

\* every event of the batch was enriched
AllEnriched == \A n \in 1..Len(batch) : batch[n].editions # Undefined

\* the files loadJsonFromDirectory found: the index without the filenames
\* reserved for CREATED records
LocalIndex ==
  SubSeq(index, 1,
         Len(index)
           - Cardinality({n \in 1..Len(records) : records[n].status = "CREATED"}))

\* C13: no two export records produced by getEventExports for one batch
\* have the same filename, whatever names and ids the entities carry.
C13_DistinctFilenames ==
  \A a, b \in 1..Len(records) :
     a # b => records[a].filename # records[b].filename

\* C14: a batch of two entities with a null id and equal names, both
\* enriched, yields two records, both CREATED, with distinct filenames.
C14_NullIdPairExported ==
  (/\ Computed /\ AllEnriched
   /\ Len(batch) = 2
   /\ batch[1].id = Null /\ batch[2].id = Null
   /\ batch[1].name = batch[2].name)
  => /\ Len(records) = 2
     /\ records[1].status = "CREATED" /\ records[2].status = "CREATED"
     /\ records[1].filename # records[2].filename

\* C15: every entity of an enriched batch has a record; the record is
\* UPDATED with the filename of a local file when the id of the entity is
\* the id of that local file, otherwise CREATED with a filename no local
\* file has; no record is UP-TO-DATE; no file is written over a local file
\* whose id is not in the batch.
C15_DiffClassification ==
  (Computed /\ AllEnriched) =>
    /\ Len(records) = Len(batch)
    /\ \A n \in 1..Len(records) :
         /\ records[n].event = batch[n]
         /\ records[n].status # "UP-TO-DATE"
         /\ IF findIndex(LocalIndex, batch[n].id) # 0
            THEN /\ records[n].status = "UPDATED"
                 /\ records[n].filename =
                      LocalIndex[findIndex(LocalIndex, batch[n].id)].filename
            ELSE /\ records[n].status = "CREATED"
                 /\ records[n].filename \notin Keys(LocalIndex)
    /\ \A f \in 1..Len(LocalIndex) :
         (\A n \in 1..Len(batch) : batch[n].id # LocalIndex[f].event.id)
         => \A w \in 1..Len(written) :
              written[w].filename # LocalIndex[f].filename

\* the overwrite confirmation was requested and declined
Declined == prompts > 0 /\ notice = NothingExported

\* C16: when a record is UPDATED and the confirmation is declined, no file
\* is written, no row is reported and the output directory is not ensured.
C16_DeclineWritesNothing ==
  Declined =>
    /\ \E n \in 1..Len(records) : records[n].status = "UPDATED"
    /\ written = <<>>
    /\ rows = <<>>
    /\ ensured = 0
    /\ xpc = "done"

\* the confirmation was declined for an event that matched a local file
C16_Witness ==
  /\ Declined
  /\ \E n \in 1..Len(records) :
       /\ records[n].status = "UPDATED"
       /\ findIndex(LocalIndex, records[n].event.id) # 0
  /\ \E n \in 1..Len(records) : records[n].status = "CREATED"

\* processEvents was entered: the hub and the single event, if one was
\* asked for, were fetched
Entered ==
  /\ xpc \notin {"idle", "hub", "event", "list"}
  /\ HubError \notin Range(xlog)
  /\ EventError \notin Range(xlog)

\* no event of the batch is eligible: each was dropped by the enrichment or
\* has no id
NoneEligible ==
  \A n \in 1..Len(batch) :
     batch[n].editions = Undefined \/ batch[n].id = Null

\* C17: with no eligible entity (an empty batch, or every entity dropped or
\* skipped) processEvents ends the run with the notice and no error, with
\* no confirmation requested, no directory ensured and no file written;
\* with an empty batch no editions or slots are requested.
C17_NothingToExport ==
  (Entered /\ (batch = <<>> \/ (evIdx > Len(batch) /\ NoneEligible))) =>
    /\ xpc = "done"
    /\ notice # Null
    /\ prompts = 0
    /\ ensured = 0
    /\ written = <<>>
    /\ records = <<>>
    /\ batch = <<>> => fetches \cap {"editions", "slots"} = {}

\* a batch of two events: one dropped by the enrichment, one without an id
C17_Witness ==
  /\ Entered /\ xpc = "done"
  /\ Len(batch) = 2 /\ NoneEligible
  /\ \E n \in 1..2 : batch[n].editions = Undefined /\ batch[n].id # Null
  /\ \E n \in 1..2 : batch[n].editions # Undefined /\ batch[n].id = Null
  /\ notice = NothingExported

\* the parents among the first n events whose editions and slots were all
\* fetched, in input order, as enrichEvents returns them
RECURSIVE FetchedParents(_)
FetchedParents(n) ==
  IF n = 0 THEN <<>>
  ELSE IF tiers[n] = "ok"
       THEN Append(FetchedParents(n - 1),
                   [id |-> batch[n].id, name |-> batch[n].name,
                    editions |-> Fetched])
       ELSE FetchedParents(n - 1)

\* C18: enrichEvents goes through every parent, whatever failed before, and
\* returns, in input order, exactly the parents whose editions and whose
\* slots of every edition were fetched.
C18_EnrichKeepsFetchedParents ==
  /\ (xpc \in {"editions", "slots"}) => Len(tiers) = evIdx - 1
  /\ Computed =>
       /\ Len(tiers) = Len(batch)
       /\ WithEditions(batch) = FetchedParents(Len(batch))
       /\ \A n \in 1..Len(records) :
            \E m \in 1..Len(batch) :
               tiers[m] = "ok" /\ records[n].event = batch[m]

\* the slots of the first parent failed and the second parent was fetched
\* and exported
C18_Witness ==
  /\ Computed
  /\ tiers = <<"slots", "ok">>
  /\ Len(WithEditions(batch)) = 1
  /\ Len(records) = 1

\* C19: after the hub could not be fetched only the hub was requested; after
\* the single event could not be fetched only the hub and that event were
\* requested; in both cases the run has ended with no directory ensured and
\* no file written.
C19_FatalFetchAborts ==
  /\ HubError \in Range(xlog) =>
       fetches = {"hub"} /\ xpc = "done" /\ ensured = 0 /\ written = <<>>
  /\ EventError \in Range(xlog) =>
       /\ fetches = {"hub", "event"}
       /\ xpc = "done" /\ ensured = 0 /\ written = <<>>

\* the hub could not be fetched in a run asked for a single event
C19_Witness ==
  /\ HubError \in Range(xlog)
  /\ xid # Null
  /\ xpc = "done"
  /\ "event" \notin fetches

\* C20: a run of the export handler that has ended, normally or with an
\* error, has closed its log exactly once.
C20_ExportLogClosedOnce ==
  xpc \in {"done", "threw"} => xclosed = 1

\* C21: after the list of events could not be fetched the error is logged
\* and the run goes on with an empty batch: nothing but the hub and the list
\* was requested, no directory is ensured, no file written, and the run has
\* ended with the no-events notice, the completion line logged last and the
\* log closed once.
C21_ListFailureContinuesEmpty ==
  ListError \in Range(xlog) =>
    /\ xid = Null
    /\ batch = <<>>
    /\ fetches = {"hub", "list"}
    /\ ensured = 0 /\ written = <<>>
    /\ xpc = "done"
    /\ notice = NoEvents
    /\ xlog = <<ListError, DoneLine>>
    /\ xclosed = 1

\* the list failed for a directory that did not exist: it still does not
C21_Witness ==
  /\ ListError \in Range(xlog)
  /\ xpc = "done"
  /\ ~dirExists
  /\ xlog[Len(xlog)] = DoneLine

\* the calls of the archive phase: those after copy.handler
PhaseCalls == Tail(calls)

\* C23: in the archive phase the ids are fetched in exportedIds order, one
\* call is outstanding at a time, the archive of an id follows the
\* successful fetch of that id, and at every moment the MOVED entries of the
\* log are the ids whose archive() has succeeded so far, in that order; when
\* the run completes these are the MOVED entries of the closed log.
C23_MovedEntriesFollowArchives ==
  (OnForward /\ copySuccess) =>
    /\ IdsOf(calls, "get") = SubSeq(exportedIds, 1, Len(IdsOf(calls, "get")))
    /\ \A n \in 1..Len(calls) : calls[n].result = "pending" => n = Len(calls)
    /\ \A n \in 1..Len(PhaseCalls) :
         PhaseCalls[n].op = "archive" =>
           /\ n > 1
           /\ PhaseCalls[n - 1].op = "get"
           /\ PhaseCalls[n - 1].result = "ok"
           /\ PhaseCalls[n - 1].id = PhaseCalls[n].id
    /\ \A n \in 2..Len(PhaseCalls) :
         PhaseCalls[n].op = "get" =>
           PhaseCalls[n - 1].op = "archive"
    /\ getData(log, "MOVED") = OkIdsOf(calls, "archive")
    /\ pc = "done" =>
         /\ getData(disk[argv.logFile], "MOVED") = OkIdsOf(calls, "archive")
         /\ Len(IdsOf(calls, "get")) = Len(exportedIds)

\* a completed move of two ids: the archive of the first failed, the second
\* is the only MOVED entry
C23_Witness ==
  /\ OnForward /\ copySuccess /\ pc = "done"
  /\ Len(exportedIds) = 2
  /\ OkIdsOf(calls, "archive") = <<exportedIds[2]>>
  /\ getData(disk[argv.logFile], "MOVED") = <<exportedIds[2]>>

\* the revert log was loaded
Loaded ==
  /\ OnRevert /\ calls # <<>>
  /\ calls[1].op = "loadFromFile" /\ calls[1].result = "ok"

\* C24: on the revert path with a loaded log import-revert is invoked at
\* most once, as the last call, when every MOVED id has been fetched and
\* every earlier call has settled; a run that has ended has invoked it,
\* whatever the log held and however the unarchive attempts ended.
C24_ImportRevertOnceAfterLoop ==
  Loaded =>
    /\ Cardinality(CallsTo("revert")) <= 1
    /\ \A c \in CallsTo("revert") :
         /\ c = Len(calls)
         /\ IdsOf(calls, "get") = toUnarchive
         /\ \A n \in 1..(c - 1) : calls[n].result # "pending"
    /\ pc = "done" => Cardinality(CallsTo("revert")) = 1

\* import-revert was invoked after every unarchive attempt failed
C24_Witness ==
  /\ Loaded /\ pc = "done"
  /\ toUnarchive # <<>>
  /\ CallsOf("unarchive", "ok") = {}
  /\ Cardinality(CallsOf("unarchive", "error")) = Len(toUnarchive)
  /\ CallsOf("revert", "ok") # {}

\* C27: a run with revertLog never invokes the copy collaborator or
\* archive() and adds nothing to the log it loaded nor closes it; a run
\* without revertLog never loads a log, never calls unarchive() and never
\* invokes import-revert.
C27_PathsAreExclusive ==
  /\ OnRevert =>
       /\ CallsTo("copy") = {} /\ CallsTo("archive") = {}
       /\ closeCount = 0
       /\ log \in {<<>>, loadFromFile(disk, argv.revertLog)}
       /\ getData(log, "MOVED") = toUnarchive
  /\ OnForward =>
       /\ CallsTo("loadFromFile") = {} /\ CallsTo("unarchive") = {}
       /\ CallsTo("revert") = {}
       /\ toUnarchive = <<>>
  /\ ~(OnRevert /\ OnForward)

\* a revert that unarchived an item and a move that archived one, each
\* without a call of the other path
C27_Witness ==
  /\ OnRevert /\ pc = "done"
  /\ CallsOf("unarchive", "ok") # {}
  /\ CallsOf("revert", "ok") # {}
  /\ lastRun.archived # <<>>
  /\ CallsTo("copy") = {}

\* some record is UPDATED
SomeUpdated == \E n \in 1..Len(records) : records[n].status = "UPDATED"

\* C25: the overwrite confirmation is requested at most once, exactly when
\* some record is UPDATED, and while it is awaited no directory is ensured
\* and no file written; a file the directory held before the run is written
\* only for an UPDATED record, after the confirmation was requested and not
\* declined.
C25_PromptGuardsOverwrites ==
  /\ prompts <= 1
  /\ IF Computed THEN prompts = 1 <=> SomeUpdated ELSE prompts = 0
  /\ xpc = "prompt" => (ensured = 0 /\ written = <<>> /\ rows = <<>>)
  /\ \A w \in 1..Len(written) :
       written[w].filename \in Keys(LocalIndex) =>
         /\ records[w].status = "UPDATED"
         /\ records[w].filename = written[w].filename
         /\ prompts = 1
         /\ ~Declined

\* a local file was written over for an UPDATED record after the
\* confirmation, next to a CREATED record
C25_Witness ==
  /\ xpc = "done" /\ prompts = 1
  /\ \E w \in 1..Len(written) : written[w].filename \in Keys(LocalIndex)
  /\ \E n \in 1..Len(records) : records[n].status = "CREATED"

\* C26: nothing is written or reported before the output directory was
\* ensured; when the export has gone through, every record was written
\* once, in order, to its filename, as the event without its id, and has one
\* row in the table; when a write threw, this holds for the records before
\* it.
C26_RecordsWrittenOnce ==
  /\ (written # <<>> \/ rows # <<>>) => (ensured = 1 /\ dirExists)
  /\ (xpc = "done" /\ ensured = 1) => Len(written) = Len(records)
  /\ Len(written) <= Len(records)
  /\ Len(rows) = Len(written)
  /\ \A n \in 1..Len(written) :
       /\ records[n].status # "UP-TO-DATE"
       /\ written[n].filename = records[n].filename
       /\ "id" \notin DOMAIN written[n].content
       /\ written[n].content.name = records[n].event.name
       /\ written[n].content.editions = records[n].event.editions
       /\ rows[n].filename = records[n].filename
       /\ rows[n].name = records[n].event.name
       /\ rows[n].status = records[n].status

\* two records, one CREATED and one UPDATED, were written and reported
C26_Witness ==
  /\ xpc = "done" /\ ensured = 1
  /\ Len(written) = 2 /\ Len(rows) = 2
  /\ rows[1].status = "CREATED" /\ rows[2].status = "UPDATED"
  /\ written[1].filename # written[2].filename

\* an event is left out: from is defined and the event ends before it, or
\* to is defined and the event starts after it
LeftOut(event, from, to) ==
  \/ from # NoDate /\ event.end < from
  \/ to # NoDate /\ event.start > to

\* the events of a list that are not left out, in the order of the list
RECURSIVE NotLeftOut(_, _, _)
NotLeftOut(events, from, to) ==
  IF events = <<>> THEN <<>>
  ELSE IF LeftOut(Head(events), from, to)
       THEN NotLeftOut(Tail(events), from, to)
       ELSE <<Head(events)>> \o NotLeftOut(Tail(events), from, to)

\* C22: filterEvents returns, in input order, exactly the events that are
\* not left out, and every event when neither date is defined.
C22_FilterKeepsOverlapping ==
  filterCall.returned =>
    /\ filterCall.result =
         NotLeftOut(filterCall.events, filterCall.from, filterCall.to)
    /\ (filterCall.from = NoDate /\ filterCall.to = NoDate)
         => filterCall.result = filterCall.events

\* of two events the one that ends before from is left out, the one that
\* spans from and to is kept
C22_Witness ==
  /\ filterCall.returned
  /\ filterCall.from # NoDate /\ filterCall.to # NoDate
  /\ Len(filterCall.events) = 2
  /\ filterCall.events[1].end < filterCall.from
  /\ filterCall.events[2].start < filterCall.from
  /\ filterCall.result = <<filterCall.events[2]>>

====
